---- MODULE Spec2Model ----
(***************************************************************************)
(* A model of the snow precipitation tracker: the useWeatherData hook      *)
(* (fetchData: station lookup, historical fetch, forecast fetch, merge,    *)
(* sort, snow depth accumulation) and the backend it talks to: the routes   *)
(* /stations, /observations and /forecast and their response cache.        *)
(*                                                                         *)
(* Numbers.  JavaScript numbers are modelled as integers in fixed point:   *)
(* precipitation (mm) and snow depth (cm) in hundredths, temperature       *)
(* (degrees C) in tenths.  With these units "temp <= 2" is T <= 20 and     *)
(* the melt term "temp * 0.1" (cm) is exactly T hundredths of a cm.        *)
(*                                                                         *)
(* Optional values.  A value that may be undefined is a sequence of        *)
(* length 0 (undefined) or 1 (the value).                                  *)
(*                                                                         *)
(* Time.  An instant is a tick number; a day is DayLen ticks.  A           *)
(* timestamp string is a pair of the instant it denotes and its textual    *)
(* form: two strings are === only when both agree, while                   *)
(* new Date(s).getTime() and parseISO(s) see the instant alone.            *)
(***************************************************************************)
EXTENDS Integers, Sequences, FiniteSets, TLC

VARIABLES
    \* ---- one accumulation pass, point by point (SpecAccum) ----
    input,          \* the sorted merged series the pass was started on
    series,         \* combinedData while the loop at lines 407-446 runs
    idx,            \* index of the point the loop handles next
    accumulated,    \* the loop's local "accumulated" (optional number)
    \* ---- the hook and its requests (SpecPipe, SpecHook) ----
    reqs,           \* per fetchData call: its locals and its position
    issued,         \* how many fetchData calls were made so far
    now,            \* the wall clock (new Date()) during the run
    clientId,       \* backend: is FROST_CLIENT_ID set
    data,           \* React state: data
    stations,       \* React state: stations
    selectedStation,\* React state: selectedStation
    loading,        \* React state: loading
    error,          \* React state: error
    \* ---- the backend process (SpecBackend) ----
    cache,          \* SimpleCache.cache: key -> {data, timestamp, ttl}
    clock,          \* Date.now() of the backend process, in ms
    inflight,       \* route handlers suspended at an "await axios.get"
    last            \* the handler that answered most recently (optional)

vars == << input, series, idx, accumulated, reqs, issued, now, clientId,
           data, stations, selectedStation, loading, error,
           cache, clock, inflight, last >>

accumVars == << input, series, idx, accumulated >>
hookVars == << reqs, issued, now, clientId, data, stations, selectedStation,
               loading, error >>
backendVars == << cache, clock, inflight, last >>

----------------------------------------------------------------------------
(* Bounds of the model *)

MaxInst == 2        \* instants are 0..MaxInst
DayLen == 2         \* ticks per calendar day
MaxLen == 3         \* longest series given to the stand-alone pass
MaxHist == 2        \* most observation records in one historical response
MaxFc == 2          \* most points in one forecast timeseries
MaxRequests == 2    \* most fetchData calls in one run of the hook

----------------------------------------------------------------------------
(* Optional values *)

None == << >>
Some(v) == << v >>
IsDef(x) == x # << >>
Val(x) == x[1]
\* Mutant: the fallback taken for every falsy value (||), so also for 0.
OrElseFalsy(a, b) == IF IsDef(a) /\ Val(a) # 0 THEN a ELSE b
\* a ?? b
OrElse(a, b) == IF IsDef(a) THEN a ELSE b

----------------------------------------------------------------------------
(* Time *)

Instants == 0..MaxInst

\* new Date(s).getTime(), parseISO(s): the instant a timestamp string denotes
GetTime(s) == s.inst

\* date-fns
StartOfDay(t) == (t \div DayLen) * DayLen
EndOfDay(t) == StartOfDay(t) + DayLen - 1
AddDays(t, n) == t + n * DayLen
IsBefore(a, b) == a < b
IsAfter(a, b) == a > b

\* const today = new Date(now.getFullYear(), now.getMonth(), now.getDate())
Today(t) == StartOfDay(t)

----------------------------------------------------------------------------
(* Program constants of the accumulation model *)

\* "temp <= 2": 2 degrees C in tenths of a degree
SnowTempThreshold == 20
\* "temp * 0.1": cm of melt per degree = hundredths of a cm per tenth of a degree
MeltPerTenthDegree == 1

Min(a, b) == IF a < b THEN a ELSE b
Max(a, b) == IF a > b THEN a ELSE b

----------------------------------------------------------------------------
(* The accumulation pass, lines 403-446 *)

\* Mutant: the melt term without its Math.min / Math.max clamps.
ForecastEstimateNoClamp(currentSnow, point) ==
    LET temp == IF IsDef(point.temperature) THEN Val(point.temperature) ELSE 0
        added == IF temp <= SnowTempThreshold /\ point.precipitation > 0
                 THEN currentSnow + point.precipitation
                 ELSE currentSnow
    IN  IF temp > 0 /\ added > 0
        THEN added - temp * MeltPerTenthDegree
        ELSE added

\* Mutant: precipitation counts as snow only at or below freezing.
ForecastEstimateFreezing(currentSnow, point) ==
    LET temp == IF IsDef(point.temperature) THEN Val(point.temperature) ELSE 0
        added == IF temp <= 0 /\ point.precipitation > 0
                 THEN currentSnow + point.precipitation
                 ELSE currentSnow
    IN  IF temp > 0 /\ added > 0
        THEN LET meltRate == Min(added, temp * MeltPerTenthDegree)
             IN  Max(0, added - meltRate)
        ELSE added

\* Mutant: the melt term is 10% of the current depth per degree.
ForecastEstimateProportional(currentSnow, point) ==
    LET temp == IF IsDef(point.temperature) THEN Val(point.temperature) ELSE 0
        added == IF temp <= SnowTempThreshold /\ point.precipitation > 0
                 THEN currentSnow + point.precipitation
                 ELSE currentSnow
    IN  IF temp > 0 /\ added > 0
        THEN LET meltRate == Min(added, (added * temp) \div 100)
             IN  Max(0, added - meltRate)
        ELSE added

\* Lines 422-440: the estimate for a forecast point from the running value.
ForecastEstimate(currentSnow, point) ==
    LET temp == IF IsDef(point.temperature) THEN Val(point.temperature) ELSE 0
        added == IF temp <= SnowTempThreshold /\ point.precipitation > 0
                 THEN currentSnow + point.precipitation
                 ELSE currentSnow
    IN  IF temp > 0 /\ added > 0
        THEN LET meltRate == Min(added, temp * MeltPerTenthDegree)
             IN  Max(0, added - meltRate)
        ELSE added

\* Mutant: the earlier revision's loop, which starts from 0 instead of
\* waiting for an observed baseline.
AccumStepFromZero(acc, point) ==
    IF ~point.isForcast /\ IsDef(point.snowDepth)
    THEN [acc |-> Some(Val(point.snowDepth)), point |-> point]
    ELSE IF point.isForcast
    THEN LET new == ForecastEstimate(IF IsDef(acc) THEN Val(acc) ELSE 0, point)
         IN  [acc |-> Some(new), point |-> [point EXCEPT !.snowDepth = Some(new)]]
    ELSE [acc |-> acc, point |-> point]

\* Mutant: a forecast point without a temperature is skipped instead of
\* being estimated with temp = 0.
AccumStepNeedsTemp(acc, point) ==
    IF ~point.isForcast /\ IsDef(point.snowDepth)
    THEN [acc |-> Some(Val(point.snowDepth)), point |-> point]
    ELSE IF point.isForcast
    THEN IF ~IsDef(acc) \/ ~IsDef(point.temperature)
         THEN [acc |-> acc, point |-> [point EXCEPT !.snowDepth = None]]
         ELSE LET new == ForecastEstimate(Val(acc), point)
              IN  [acc |-> Some(new),
                   point |-> [point EXCEPT !.snowDepth = Some(new)]]
    ELSE [acc |-> acc, point |-> point]

\* Mutant: every forecast point is estimated from the last observed value;
\* the estimate is not carried to the next point.
AccumStepFromObserved(acc, point) ==
    IF ~point.isForcast /\ IsDef(point.snowDepth)
    THEN [acc |-> Some(Val(point.snowDepth)), point |-> point]
    ELSE IF point.isForcast
    THEN IF ~IsDef(acc)
         THEN [acc |-> acc, point |-> [point EXCEPT !.snowDepth = None]]
         ELSE LET new == ForecastEstimate(Val(acc), point)
              IN  [acc |-> acc,
                   point |-> [point EXCEPT !.snowDepth = Some(new)]]
    ELSE [acc |-> acc, point |-> point]

\* Mutant: a historical point without an observed value is given the value
\* carried so far.
AccumStepFillsGaps(acc, point) ==
    IF ~point.isForcast /\ IsDef(point.snowDepth)
    THEN [acc |-> Some(Val(point.snowDepth)), point |-> point]
    ELSE IF point.isForcast
    THEN IF ~IsDef(acc)
         THEN [acc |-> acc, point |-> [point EXCEPT !.snowDepth = None]]
         ELSE LET new == ForecastEstimate(Val(acc), point)
              IN  [acc |-> Some(new),
                   point |-> [point EXCEPT !.snowDepth = Some(new)]]
    ELSE [acc |-> acc, point |-> [point EXCEPT !.snowDepth = acc]]

\* Mutant: a forecast point that already carries a snow depth is estimated
\* from that depth instead of from the running value.
AccumStepFromOwnDepth(acc, point) ==
    IF ~point.isForcast /\ IsDef(point.snowDepth)
    THEN [acc |-> Some(Val(point.snowDepth)), point |-> point]
    ELSE IF point.isForcast
    THEN IF ~IsDef(acc)
         THEN [acc |-> acc, point |-> [point EXCEPT !.snowDepth = None]]
         ELSE LET from == IF IsDef(point.snowDepth) THEN Val(point.snowDepth)
                          ELSE Val(acc)
                  new == ForecastEstimate(from, point)
              IN  [acc |-> Some(new),
                   point |-> [point EXCEPT !.snowDepth = Some(new)]]
    ELSE [acc |-> acc, point |-> point]

\* Mutant: an observed snow depth below 0 is stored as 0.
AccumStepClampsObserved(acc, point) ==
    IF ~point.isForcast /\ IsDef(point.snowDepth)
    THEN [acc |-> Some(Max(0, Val(point.snowDepth))),
          point |-> [point EXCEPT !.snowDepth = Some(Max(0, Val(point.snowDepth)))]]
    ELSE IF point.isForcast
    THEN IF ~IsDef(acc)
         THEN [acc |-> acc, point |-> [point EXCEPT !.snowDepth = None]]
         ELSE LET new == ForecastEstimate(Val(acc), point)
              IN  [acc |-> Some(new),
                   point |-> [point EXCEPT !.snowDepth = Some(new)]]
    ELSE [acc |-> acc, point |-> point]

\* One iteration of the loop at lines 407-446: the new "accumulated" and the
\* point as the iteration leaves it.  (undefined and null are both None.)
AccumStep(acc, point) ==
    IF ~point.isForcast /\ IsDef(point.snowDepth)
    THEN [acc |-> Some(Val(point.snowDepth)), point |-> point]
    ELSE IF point.isForcast
    THEN IF ~IsDef(acc)
         THEN [acc |-> acc, point |-> [point EXCEPT !.snowDepth = None]]
         ELSE LET new == ForecastEstimate(Val(acc), point)
              IN  [acc |-> Some(new),
                   point |-> [point EXCEPT !.snowDepth = Some(new)]]
    ELSE [acc |-> acc, point |-> point]

\* The whole loop: the series after the pass, starting from "acc".
RECURSIVE AccumulateFrom(_, _)
AccumulateFrom(acc, s) ==
    IF s = << >> THEN << >>
    ELSE LET r == AccumStep(acc, Head(s))
         IN  << r.point >> \o AccumulateFrom(r.acc, Tail(s))

\* let accumulated = undefined; for (const point of combinedData) ...
Accumulate(s) == AccumulateFrom(None, s)

----------------------------------------------------------------------------
(* SpecAccum: the pass alone, on every short sorted tagged series *)

\* A UnifiedDataPoint (PrecipitationData)
Point(time, precip, snow, temp, ws, wd, fc) ==
    [time |-> time, precipitation |-> precip, snowDepth |-> snow,
     temperature |-> temp, windSpeed |-> ws, windDirection |-> wd,
     isForcast |-> fc]

PlainTime(i) == [inst |-> i, fmt |-> "s"]

\* observed snow depths (hundredths of a cm): missing, -1 cm, 0.3 cm, 10 cm
ObservedSnow == {None, Some(-100), Some(30), Some(1000)}
\* forecast (precipitation, temperature) pairs
ForecastCases ==
    ({0, 300} \X {None, Some(-20), Some(15), Some(50)}) \cup {<< -100, Some(-20) >>}

\* what a point of the series may be, apart from its time
HistoricalPointsAt(i) ==
    {Point(PlainTime(i), 500, s, None, None, None, FALSE) : s \in ObservedSnow}
ForecastPointsAt(i) ==
    {Point(PlainTime(i), c[1], None, c[2], Some(3), None, TRUE) : c \in ForecastCases}
PointsAt(i) == HistoricalPointsAt(i) \cup ForecastPointsAt(i)

\* sorted series of length n: the i-th point is at instant i
SeriesOfLen(n) ==
    {[i \in 1..n |-> [s[i] EXCEPT !.time = PlainTime(i)]] : s \in [1..n -> PointsAt(0)]}
InputSeries == UNION {SeriesOfLen(n) : n \in 0..MaxLen}

\* new SimpleCache(): an empty Map
EmptyCache == [k \in {} |-> << >>]

\* the backend process has served nothing
BackendIdle ==
    /\ cache = EmptyCache
    /\ clock = 0
    /\ inflight = << >>
    /\ last = << >>

HookIdle ==
    /\ reqs = << >>
    /\ issued = 0
    /\ now = 0
    /\ clientId = TRUE
    /\ data = << >>
    /\ stations = << >>
    /\ selectedStation = None
    /\ loading = FALSE
    /\ error = None

InitAccum ==
    /\ input \in InputSeries
    /\ series = input
    /\ idx = 1
    /\ accumulated = None
    /\ HookIdle
    /\ BackendIdle

\* one iteration of "for (const point of combinedData)"
AccumulateNext ==
    /\ idx <= Len(series)
    /\ LET r == AccumStep(accumulated, series[idx])
       IN  /\ accumulated' = r.acc
           /\ series' = [series EXCEPT ![idx] = r.point]
    /\ idx' = idx + 1
    /\ UNCHANGED << input, hookVars, backendVars >>

NextAccum == AccumulateNext

SpecAccum == InitAccum /\ [][NextAccum]_vars

PassDone == idx > Len(series)

----------------------------------------------------------------------------
(* The backend route GET /api/frost/stations, backend/src/routes/frost.ts *)

\* an HTTP answer
Response(status, body) == [status |-> status, body |-> body]

\* what the Frost API (the upstream) may answer to one call: a 2xx with a
\* body, an error status, or nothing at all (status 0: no response)
UpstreamErrorStatuses == {401, 404, 500, 503}
UpstreamAnswers(lists) ==
    {Response(200, [data |-> d, error |-> None]) :
        d \in {None} \cup {Some(l) : l \in lists}}
        \cup {Response(s, [data |-> None, error |-> None]) : s \in UpstreamErrorStatuses}
        \cup {Response(0, [data |-> None, error |-> None])}

\* the "error" texts of the route's answers
NotConfiguredText == "Frost API not configured. Historical data unavailable."
BadCredentialsText == "Invalid Frost API credentials. Please check FROST_CLIENT_ID."
FailedText == "Failed to fetch stations"
ParametersText == "lat and lon query parameters are required"

ErrorBody(text) == [data |-> None, error |-> Some(text)]

\* the body of a forwarded failure, {error, details: error.response?.data}:
\* details is undefined when the call got no response
FailureBody(text, up) ==
    [data |-> None, error |-> Some(text),
     details |-> IF up.status = 0 THEN None ELSE Some(up.body)]

\* the catch block at lines 76-95, for the call that failed with answer up
StationsCatch(up) ==
    IF up.status = 401 THEN Response(401, ErrorBody(BadCredentialsText))
    ELSE IF up.status = 404 THEN Response(200, [data |-> Some(<< >>), error |-> None])
    ELSE Response(IF up.status = 0 THEN 500 ELSE up.status, FailureBody(FailedText, up))

\* The whole handler: configured says whether FROST_CLIENT_ID is set, present
\* whether lat and lon were given, cached is cache.get(cacheKey), first and
\* second are the upstream's answers to the filtered and the unfiltered call.
StationsRoute(configured, present, cached, first, second) ==
    IF ~configured THEN Response(503, ErrorBody(NotConfiguredText))
    ELSE IF ~present THEN Response(400, ErrorBody(ParametersText))
    ELSE IF IsDef(cached) THEN Response(200, Val(cached))
    ELSE IF first.status = 200 THEN Response(200, first.body)
    ELSE IF first.status = 404
    THEN IF second.status = 200 THEN Response(200, second.body)
         ELSE StationsCatch(second)
    ELSE StationsCatch(first)

\* what the frontend can get from GET /frost/stations?lat=..&lon=..: the
\* route's answers when the upstream knows the station lists "lists", or no
\* answer at all
StationsAnswers(configured, lists) ==
    {StationsRoute(configured, TRUE, None, f, s) :
        f \in UpstreamAnswers(lists), s \in UpstreamAnswers(lists)}
        \cup {Response(0, [data |-> None, error |-> None])}

----------------------------------------------------------------------------
(* The backend route GET /api/frost/observations, frost.ts lines 99-165 *)

ObservationsBadCredentialsText == "Invalid Frost API credentials."
ObservationsFailedText == "Failed to fetch observations"
ObservationsParametersText == "sources and referencetime query parameters are required"

\* mutant of ObservationsCatch: a 404 of the upstream is forwarded as a failure
ObservationsCatchForwards404(up) ==
    IF up.status = 401 THEN Response(401, ErrorBody(ObservationsBadCredentialsText))
    ELSE Response(IF up.status = 0 THEN 500 ELSE up.status,
                  FailureBody(ObservationsFailedText, up))

\* the catch block at lines 146-164
ObservationsCatch(up) ==
    IF up.status = 401 THEN Response(401, ErrorBody(ObservationsBadCredentialsText))
    ELSE IF up.status = 404 THEN Response(200, [data |-> Some(<< >>), error |-> None])
    ELSE Response(IF up.status = 0 THEN 500 ELSE up.status,
                  FailureBody(ObservationsFailedText, up))

\* The whole handler; up is the upstream's answer to its one call.
ObservationsRoute(configured, present, cached, up) ==
    IF ~configured THEN Response(503, ErrorBody(NotConfiguredText))
    ELSE IF ~present THEN Response(400, ErrorBody(ObservationsParametersText))
    ELSE IF IsDef(cached) THEN Response(200, Val(cached))
    ELSE IF up.status = 200 THEN Response(200, up.body)
    ELSE ObservationsCatch(up)

----------------------------------------------------------------------------
(* The backend route GET /api/forecast, backend/src/routes/forecast.ts *)

ForecastFailedText == "Failed to fetch forecast"

\* the catch block at lines 38-48: every failure is forwarded
ForecastCatch(up) ==
    Response(IF up.status = 0 THEN 500 ELSE up.status, FailureBody(ForecastFailedText, up))

\* The whole handler: it does not look at FROST_CLIENT_ID.
ForecastRoute(present, cached, up) ==
    IF ~present THEN Response(400, ErrorBody(ParametersText))
    ELSE IF IsDef(cached) THEN Response(200, Val(cached))
    ELSE IF up.status = 200 THEN Response(200, up.body)
    ELSE ForecastCatch(up)

----------------------------------------------------------------------------
(* The response cache, backend/src/services/cache.ts (class SimpleCache) *)

MsPerSecond == 1000

\* set(key, data, ttlSeconds) at Date.now() = t
cacheSet(c, key, body, ttlSeconds, t) ==
    [k \in DOMAIN c \cup {key} |->
        IF k = key THEN [data |-> body, timestamp |-> t, ttl |-> ttlSeconds * MsPerSecond]
        ELSE c[k]]

\* mutant of Expired: an entry is stale from the moment its age reaches the ttl
ExpiredAtTtl(entry, t) == t - entry.timestamp >= entry.ttl

\* line 22: Date.now() - entry.timestamp > entry.ttl
Expired(entry, t) == t - entry.timestamp > entry.ttl

\* mutant of cacheGet: a stale entry is reported missing but stays in the map
cacheGetKeepsStale(c, key, t) ==
    IF key \notin DOMAIN c THEN [value |-> None, cache |-> c]
    ELSE IF Expired(c[key], t) THEN [value |-> None, cache |-> c]
    ELSE [value |-> Some(c[key].data), cache |-> c]

\* get(key) at Date.now() = t: the value returned (null is None) and the map
\* it leaves
cacheGet(c, key, t) ==
    IF key \notin DOMAIN c THEN [value |-> None, cache |-> c]
    ELSE IF Expired(c[key], t)
    THEN [value |-> None, cache |-> [k \in DOMAIN c \ {key} |-> c[k]]]
    ELSE [value |-> Some(c[key].data), cache |-> c]

\* parts.filter(Boolean): undefined and the empty string are both dropped
\* (a part that is undefined is modelled as "")
RECURSIVE FilterBoolean(_)
FilterBoolean(parts) ==
    IF parts = << >> THEN << >>
    ELSE IF Head(parts) = "" THEN FilterBoolean(Tail(parts))
    ELSE << Head(parts) >> \o FilterBoolean(Tail(parts))

\* Array.prototype.join(':')
RECURSIVE Join(_)
Join(parts) ==
    IF parts = << >> THEN ""
    ELSE IF Len(parts) = 1 THEN parts[1]
    ELSE parts[1] \o ":" \o Join(Tail(parts))

generateKey(parts) == Join(FilterBoolean(parts))

----------------------------------------------------------------------------
(* services/api.ts *)

\* axios resolves on 2xx and rejects otherwise
Resolved(resp) == resp.status = 200

\* getNearbyStations: if (!data.data) return []; return data.data.map(...)
NearbyStations(resp) == IF IsDef(resp.body.data) THEN Val(resp.body.data) ELSE << >>

----------------------------------------------------------------------------
(* fetchData: building combinedData, lines 301-398 *)

\* obs.observations.find(pred)?.value
RECURSIVE FindValue(_, _)
FindValue(observations, ids) ==
    IF observations = << >> THEN None
    ELSE IF Head(observations).elementId \in ids THEN Some(Head(observations).value)
    ELSE FindValue(Tail(observations), ids)

\* the element ids of the model that include 'precipitation_amount'
PrecipitationIds == {"sum(precipitation_amount PT1H)", "sum(precipitation_amount PT6H)"}

\* lines 303-327: the point pushed for one observation record
HistoricalPoint(obs) ==
    LET precip == FindValue(obs.observations, PrecipitationIds)
    IN  Point(obs.referenceTime,
              IF IsDef(precip) THEN Val(precip) ELSE 0,
              FindValue(obs.observations, {"surface_snow_thickness"}),
              FindValue(obs.observations, {"air_temperature"}),
              FindValue(obs.observations, {"wind_speed"}),
              FindValue(obs.observations, {"wind_from_direction"}),
              FALSE)

\* lines 301-329: for (const obs of historicalResponse.data) combinedData.push
RECURSIVE EmitHistorical(_, _)
EmitHistorical(combined, records) ==
    IF records = << >> THEN combined
    ELSE EmitHistorical(Append(combined, HistoricalPoint(Head(records))), Tail(records))

\* block?.details?.precipitation_amount of an optional next-N-hours block
BlockAmount(block) == IF IsDef(block) THEN Val(block).precipitation_amount ELSE None

\* lines 371-387: the point pushed for one forecast timeseries entry
ForecastPoint(ts) ==
    LET precip == OrElse(BlockAmount(ts.next_1_hours),
                         OrElse(BlockAmount(ts.next_6_hours), Some(0)))
    IN  Point(ts.time, Val(precip), None,
              ts.instant.air_temperature, ts.instant.wind_speed,
              ts.instant.wind_from_direction, TRUE)

\* Mutant: the window test with both bounds exclusive.
InWindowExclusive(ts, range) ==
    /\ IsAfter(GetTime(ts.time), StartOfDay(range.start))
    /\ IsBefore(GetTime(ts.time), EndOfDay(range.end))

\* line 362: not (isBefore(time, rangeStart) || isAfter(time, rangeEnd))
InWindow(ts, range) ==
    ~(IsBefore(GetTime(ts.time), StartOfDay(range.start))
        \/ IsAfter(GetTime(ts.time), EndOfDay(range.end)))

\* Mutant: the overlap test compares instants instead of strings.
AlreadyPresentByInstant(combined, ts) ==
    \E i \in 1..Len(combined) : GetTime(combined[i].time) = GetTime(ts.time)

\* line 367: combinedData.some((d) => d.time === ts.time)
AlreadyPresent(combined, ts) ==
    \E i \in 1..Len(combined) : combined[i].time = ts.time

\* lines 358-388: the loop over forecastResponse.properties.timeseries
RECURSIVE EmitForecast(_, _, _)
EmitForecast(combined, timeseries, range) ==
    IF timeseries = << >> THEN combined
    ELSE LET ts == Head(timeseries)
         IN  IF ~InWindow(ts, range) \/ AlreadyPresent(combined, ts)
             THEN EmitForecast(combined, Tail(timeseries), range)
             ELSE EmitForecast(Append(combined, ForecastPoint(ts)),
                               Tail(timeseries), range)

\* Array.prototype.sort is stable: p goes after every point not later than it
RECURSIVE InsertByTime(_, _)
InsertByTime(sorted, p) ==
    IF sorted = << >> THEN << p >>
    ELSE IF GetTime(Head(sorted).time) - GetTime(p.time) <= 0
    THEN << Head(sorted) >> \o InsertByTime(Tail(sorted), p)
    ELSE << p >> \o sorted

RECURSIVE SortFrom(_, _)
SortFrom(sorted, rest) ==
    IF rest = << >> THEN sorted
    ELSE SortFrom(InsertByTime(sorted, Head(rest)), Tail(rest))

\* Mutant: the sort left out.
SortByTimeMissing(combined) == combined

\* lines 396-398: combinedData.sort((a, b) => getTime(a.time) - getTime(b.time))
SortByTime(combined) == SortFrom(<< >>, combined)

----------------------------------------------------------------------------
(* fetchData as a process: one record per call, one action per resumption *)

Advisory == "Historical data unavailable (Frost API not configured). Showing forecast only."
NoDataFound == "No precipitation data found for this location and time range."

\* the locals of a fetchData call right after its synchronous start, lines
\* 272-283; lookup, historical and forecast record how each of the three
\* calls ended ("pending" while it has not), notConfigured whether the lookup
\* was answered by the route's "not configured" branch, records and
\* timeseries what the two sources answered
NewRequest(coords, dateRange, today) ==
    [pc |-> "awaitStations", coords |-> coords, dateRange |-> dateRange,
     today |-> today, combinedData |-> << >>, frostApiConfigured |-> TRUE,
     lookup |-> "pending", historical |-> "pending", forecast |-> "pending",
     notConfigured |-> FALSE, records |-> << >>, timeseries |-> << >>]

\* line 349
ForecastWanted(range, today) ==
    IsAfter(range.end, today) \/ IsAfter(AddDays(today, 1), range.start)

\* lines 396-446: sort, accumulate; the call is then about to setData
Finalize(req) ==
    [req EXCEPT !.combinedData = Accumulate(SortByTime(@)), !.pc = "done"]

\* Mutant: the tail runs without waiting for the forecast.
ForecastPhaseNoWait(req) == Finalize(req)

\* lines 349-351: either the forecast request goes out or the tail runs
ForecastPhase(req) ==
    IF ForecastWanted(req.dateRange, req.today)
    THEN [req EXCEPT !.pc = "awaitForecast"]
    ELSE Finalize([req EXCEPT !.forecast = "skipped"])

\* Mutant: a failed station lookup ends the call (no forecast is fetched).
AfterStationsFatal(req, resp) ==
    IF Resolved(resp)
    THEN IF Len(NearbyStations(resp)) > 0 /\ IsBefore(req.dateRange.start, req.today)
         THEN [req EXCEPT !.lookup = "ok", !.pc = "awaitHistorical"]
         ELSE ForecastPhase([req EXCEPT !.lookup = "ok", !.historical = "skipped"])
    ELSE Finalize([req EXCEPT !.lookup = "failed", !.historical = "skipped",
                              !.forecast = "skipped",
                              !.frostApiConfigured = (resp.status # 503),
                                   !.notConfigured =
                                       (resp.body.error = Some(NotConfiguredText))])

\* lines 283-292 and 335-346: the call resumes with the station answer
AfterStations(req, resp) ==
    IF Resolved(resp)
    THEN IF Len(NearbyStations(resp)) > 0 /\ IsBefore(req.dateRange.start, req.today)
         THEN [req EXCEPT !.lookup = "ok", !.pc = "awaitHistorical"]
         ELSE ForecastPhase([req EXCEPT !.lookup = "ok", !.historical = "skipped"])
    ELSE ForecastPhase([req EXCEPT !.lookup = "failed", !.historical = "skipped",
                                   !.frostApiConfigured = (resp.status # 503),
                                   !.notConfigured =
                                       (resp.body.error = Some(NotConfiguredText))])

\* lines 295-332: the call resumes with the historical answer
AfterHistorical(req, resp) ==
    IF Resolved(resp)
    THEN LET records == IF IsDef(resp.body.data) THEN Val(resp.body.data) ELSE << >>
         IN  ForecastPhase([req EXCEPT !.historical = "ok", !.records = records,
                               !.combinedData = EmitHistorical(@, records)])
    ELSE ForecastPhase([req EXCEPT !.historical = "failed"])

\* lines 351-446: the call resumes with the forecast answer and runs to its end
AfterForecast(req, resp) ==
    IF Resolved(resp)
    THEN LET timeseries == IF IsDef(resp.body.timeseries)
                           THEN Val(resp.body.timeseries) ELSE << >>
         IN  Finalize([req EXCEPT !.forecast = "ok", !.timeseries = timeseries,
                          !.combinedData = EmitForecast(@, timeseries, req.dateRange)])
    ELSE Finalize([req EXCEPT !.forecast = "failed"])

\* Mutant: setLoading(false) at the end of the try block instead of in a
\* finally, so that the throw of "No data found" skips it.
CommitNoFinally(r, req) ==
    /\ reqs' = [reqs EXCEPT ![r] = req]
    /\ IF req.pc = "done"
       THEN /\ data' = req.combinedData
            /\ error' = IF ~req.frostApiConfigured THEN Some(Advisory)
                        ELSE IF Len(req.combinedData) = 0 THEN Some(NoDataFound)
                        ELSE error
            /\ loading' = IF req.frostApiConfigured /\ Len(req.combinedData) = 0
                          THEN loading ELSE FALSE
       ELSE UNCHANGED << data, error, loading >>

\* lines 448-455 and 466-468, when the call has run to its end
Commit(r, req) ==
    /\ reqs' = [reqs EXCEPT ![r] = req]
    /\ IF req.pc = "done"
       THEN /\ data' = req.combinedData
            /\ error' = IF ~req.frostApiConfigured THEN Some(Advisory)
                        ELSE IF Len(req.combinedData) = 0 THEN Some(NoDataFound)
                        ELSE error
            /\ loading' = FALSE
       ELSE UNCHANGED << data, error, loading >>

\* fetchData(coords, dateRange) is called: lines 272-283
FetchData(r, coords, dateRange) ==
    /\ r = issued + 1
    /\ r <= MaxRequests
    /\ issued' = r
    /\ loading' = TRUE
    /\ error' = None
    /\ reqs' = Append(reqs, NewRequest(coords, dateRange, Today(now)))
    /\ UNCHANGED << now, clientId, data, stations, selectedStation, accumVars, backendVars >>

\* await getNearbyStations(coords) settles
StationsArrive(r, resp) ==
    /\ r \in 1..Len(reqs)
    /\ reqs[r].pc = "awaitStations"
    /\ stations' = IF Resolved(resp) THEN NearbyStations(resp) ELSE << >>
    /\ selectedStation' =
          IF ~Resolved(resp) THEN None
          ELSE IF Len(NearbyStations(resp)) > 0 THEN Some(NearbyStations(resp)[1])
          ELSE selectedStation
    /\ Commit(r, AfterStations(reqs[r], resp))
    /\ UNCHANGED << issued, now, clientId, accumVars, backendVars >>

\* await getHistoricalData(station.id, start, historicalEnd) settles
HistoricalArrive(r, resp) ==
    /\ r \in 1..Len(reqs)
    /\ reqs[r].pc = "awaitHistorical"
    /\ Commit(r, AfterHistorical(reqs[r], resp))
    /\ UNCHANGED << issued, now, clientId, stations, selectedStation, accumVars, backendVars >>

\* await getForecast(coords) settles
ForecastArrive(r, resp) ==
    /\ r \in 1..Len(reqs)
    /\ reqs[r].pc = "awaitForecast"
    /\ Commit(r, AfterForecast(reqs[r], resp))
    /\ UNCHANGED << issued, now, clientId, stations, selectedStation, accumVars, backendVars >>

AccumIdle ==
    /\ input = << >>
    /\ series = << >>
    /\ idx = 1
    /\ accumulated = None

----------------------------------------------------------------------------
(* SpecPipe: one fetchData call, with every short answer of the two sources *)

SeqsUpTo(S, n) == UNION {[1..k -> S] : k \in 0..n}

Observation(id, value) == [elementId |-> id, value |-> value]

\* what one observation record may report
ObservationLists ==
    { << Observation("sum(precipitation_amount PT1H)", 500),
         Observation("surface_snow_thickness", 1000) >>,
      << Observation("air_temperature", -30) >> }

\* the historical provider writes instants in either textual form
HistoricalRecords ==
    {[referenceTime |-> [inst |-> i, fmt |-> f], observations |-> o] :
        i \in Instants, f \in {"s", "ms"}, o \in ObservationLists}

Details(temp, ws, wd) ==
    [air_temperature |-> temp, wind_speed |-> ws, wind_from_direction |-> wd]
Block(amount) == Some([precipitation_amount |-> amount])

\* what one forecast entry may carry
ForecastBlocks ==
    { [next_1_hours |-> Block(Some(300)), next_6_hours |-> Block(Some(200)),
       instant |-> Details(Some(-20), Some(3), Some(180))],
      [next_1_hours |-> None, next_6_hours |-> Block(Some(200)),
       instant |-> Details(Some(50), None, None)] }

ForecastEntries ==
    {[time |-> PlainTime(i), next_1_hours |-> b.next_1_hours,
      next_6_hours |-> b.next_6_hours, instant |-> b.instant] :
        i \in Instants, b \in ForecastBlocks}

FailureStatuses == {0, 500, 503}
Failures == {Response(s, [data |-> None, timeseries |-> None]) : s \in FailureStatuses}

HistoricalAnswers ==
    {Response(200, [data |-> d]) :
        d \in {None} \cup {Some(s) : s \in SeqsUpTo(HistoricalRecords, MaxHist)}}
        \cup Failures

ForecastAnswers ==
    {Response(200, [timeseries |-> d]) :
        d \in {None} \cup {Some(s) : s \in SeqsUpTo(ForecastEntries, MaxFc)}}
        \cup Failures

\* the station lists the upstream may know near the coordinates
PipeStationLists == {<< >>, << "SN1", "SN2" >>}

DateRanges == {[start |-> s, end |-> e] : s \in Instants, e \in Instants}

InitPipe ==
    /\ AccumIdle
    /\ BackendIdle
    /\ reqs = << >>
    /\ issued = 0
    /\ now \in {DayLen - 1, DayLen}
    /\ clientId \in BOOLEAN
    /\ data = << >>
    /\ stations = << >>
    /\ selectedStation = None
    /\ loading = FALSE
    /\ error = None

NextPipe ==
    \/ \E range \in DateRanges : issued = 0 /\ FetchData(1, 1, range)
    \/ \E resp \in StationsAnswers(clientId, PipeStationLists) : StationsArrive(1, resp)
    \/ \E resp \in HistoricalAnswers : HistoricalArrive(1, resp)
    \/ \E resp \in ForecastAnswers : ForecastArrive(1, resp)

SpecPipe == InitPipe /\ [][NextPipe]_vars

----------------------------------------------------------------------------
(* SpecHook: overlapping fetchData calls; the sources answer by location *)

Coords == {1, 2}
StationAt(c) == IF c = 1 THEN "SN1" ELSE "SN2"

HookRanges == {[start |-> 0, end |-> DayLen], [start |-> DayLen, end |-> DayLen]}

\* the observation the station near c reported yesterday
RecordAt(c) ==
    [referenceTime |-> PlainTime(0),
     observations |-> << Observation("surface_snow_thickness",
                                     IF c = 1 THEN 1000 ELSE 30) >>]

\* the forecast for c
EntryAt(c) ==
    [time |-> PlainTime(DayLen),
     next_1_hours |-> Block(Some(IF c = 1 THEN 300 ELSE 0)),
     next_6_hours |-> None,
     instant |-> Details(Some(-20), None, None)]

HookHistoricalAnswers(c) ==
    {Response(200, [data |-> Some(<< RecordAt(c) >>)])} \cup Failures
HookForecastAnswers(c) ==
    {Response(200, [timeseries |-> Some(<< EntryAt(c) >>)])} \cup Failures

InitHook ==
    /\ AccumIdle
    /\ BackendIdle
    /\ reqs = << >>
    /\ issued = 0
    /\ now = DayLen
    /\ clientId \in BOOLEAN
    /\ data = << >>
    /\ stations = << >>
    /\ selectedStation = None
    /\ loading = FALSE
    /\ error = None

NextHook ==
    \/ \E c \in Coords, range \in HookRanges : FetchData(issued + 1, c, range)
    \/ \E r \in 1..MaxRequests :
          \E resp \in StationsAnswers(clientId,
                        {<< StationAt(IF r <= Len(reqs) THEN reqs[r].coords ELSE 1) >>}) :
              StationsArrive(r, resp)
    \/ \E r \in 1..MaxRequests :
          \E resp \in HookHistoricalAnswers(IF r <= Len(reqs) THEN reqs[r].coords ELSE 1) :
              HistoricalArrive(r, resp)
    \/ \E r \in 1..MaxRequests :
          \E resp \in HookForecastAnswers(IF r <= Len(reqs) THEN reqs[r].coords ELSE 1) :
              ForecastArrive(r, resp)

SpecHook == InitHook /\ [][NextHook]_vars

----------------------------------------------------------------------------
(* SpecBackend: the Express process serving /api/frost/stations,           *)
(* /api/frost/observations and /api/forecast through the response cache.   *)
(* A handler runs from the arrival of its request to its first await in    *)
(* one step, and from one settled await to the next await or to its        *)
(* answer in one step; handlers of different requests interleave at the    *)
(* awaits.  A query parameter that is absent is the empty string.          *)

MaxSpans == 1       \* the clock runs up to MaxSpans times the longest ttl
MaxInflight == 2    \* most handlers suspended at an await at one time

StationsTtl == 3600
ObservationsTtl == 3600
ForecastTtl == 1800

\* "maxDistance = 50000" in the destructuring at frost.ts line 31, as join prints it
DefaultMaxDistance == "50000"
\* the element filter of the first /stations call and the default of /observations
ElementsFilter == "sum(precipitation_amount PT1H),surface_snow_thickness"

Query(route, params) == [route |-> route, params |-> params]

\* GET /stations?lat=&lon=&maxDistance=
StationsQueries == {Query("stations", << lat, "10", "" >>) : lat \in {"", "60"}}
\* GET /observations?sources=&elements=&referencetime=
ObservationsQueries ==
    {Query("observations", p) : p \in {<< "SN1", "0", "R" >>, << "SN1:0", "", "R" >>}}
\* GET /forecast?lat=&lon=
ForecastQueries == {Query("forecast", << "60", "10" >>)}
Queries == StationsQueries \cup ObservationsQueries \cup ForecastQueries

IsFrost(q) == q.route \in {"stations", "observations"}

\* mutant of getFrostAuth: credentials are taken to be there
getFrostAuthAlways(id) == TRUE

\* getFrostAuth() is non-null exactly when FROST_CLIENT_ID is set
getFrostAuth(id) == id

\* the "if (!lat || !lon)" and "if (!sources || !referencetime)" checks
RequiredPresent(q) ==
    IF q.route = "observations" THEN q.params[1] # "" /\ q.params[3] # ""
    ELSE q.params[1] # "" /\ q.params[2] # ""

\* the cacheKey of each route
KeyOf(q) ==
    IF q.route = "stations"
    THEN generateKey(<< "stations", q.params[1], q.params[2],
                        IF q.params[3] = "" THEN DefaultMaxDistance ELSE q.params[3] >>)
    ELSE generateKey(<< q.route >> \o q.params)

\* the ttl each route passes to cache.set
TtlOf(q) ==
    IF q.route = "stations" THEN StationsTtl
    ELSE IF q.route = "observations" THEN ObservationsTtl
    ELSE ForecastTtl

\* the first outbound call of each route
FirstCall(q) ==
    IF q.route = "stations"
    THEN [service |-> "sources", geometry |-> << q.params[2], q.params[1] >>,
          elements |-> ElementsFilter]
    ELSE IF q.route = "observations"
    THEN [service |-> "observations", sources |-> q.params[1],
          elements |-> IF q.params[2] = "" THEN ElementsFilter ELSE q.params[2],
          referencetime |-> q.params[3]]
    ELSE [service |-> "compact", lat |-> q.params[1], lon |-> q.params[2]]

\* mutant of RetryCall: the second call repeats the first
RetryCallSameFilter(q) == FirstCall(q)

\* the second /stations call: the same geometry, no element filter
RetryCall(q) ==
    [service |-> "sources", geometry |-> << q.params[2], q.params[1] >>, elements |-> ""]

\* what the provider may answer to one call; a 2xx body names the call it
\* answers
Upstream(call) ==
    {a \in UpstreamAnswers({<< call >>}) :
        a.status # 503 /\ (a.status = 200 => IsDef(a.body.data))}

NoAnswer == Response(0, [data |-> None, error |-> None])
AnswerAt(h, i) == IF i <= Len(h.answers) THEN h.answers[i] ELSE NoAnswer

\* the inner catch of /stations, lines 57-71: retry after a first 404
NeedsRetry(h) ==
    h.query.route = "stations" /\ Len(h.answers) = 1 /\ h.answers[1].status = 404

\* what the handler h sends, by its route
RouteResponse(id, h) ==
    IF h.query.route = "stations"
    THEN StationsRoute(getFrostAuth(id), RequiredPresent(h.query), h.seen,
                       AnswerAt(h, 1), AnswerAt(h, 2))
    ELSE IF h.query.route = "observations"
    THEN ObservationsRoute(getFrostAuth(id), RequiredPresent(h.query), h.seen,
                           AnswerAt(h, 1))
    ELSE ForecastRoute(RequiredPresent(h.query), h.seen, AnswerAt(h, 1))

pageVars == << reqs, issued, now, data, stations, selectedStation, loading, error >>

\* does the handler of q get as far as the cache lookup
Accepted(id, q) == (~IsFrost(q) \/ getFrostAuth(id)) /\ RequiredPresent(q)

\* A request arrives: the handler runs to its answer or to its first await.
\* seen is what cache.get returned; hit keeps, for a handler answered from
\* the cache, the entry it read and the time of the read.  A cached body is
\* a JSON object, so "if (cached)" is the test for a value other than null.
Serve(q) ==
    /\ Len(inflight) < MaxInflight
    /\ LET accepted == Accepted(clientId, q)
           key == KeyOf(q)
           got == cacheGet(cache, key, clock)
           h == [query |-> q,
                 key |-> IF accepted THEN Some(key) ELSE None,
                 seen |-> IF accepted THEN got.value ELSE None,
                 hit |-> IF accepted /\ IsDef(got.value)
                         THEN Some([entry |-> cache[key], at |-> clock])
                         ELSE None,
                 out |-> << >>,
                 answers |-> << >>,
                 response |-> None]
       IN  /\ cache' = IF accepted THEN got.cache ELSE cache
           /\ IF accepted /\ ~IsDef(got.value)
              THEN /\ inflight' = Append(inflight, [h EXCEPT !.out = << FirstCall(q) >>])
                   /\ last' = last
              ELSE /\ inflight' = inflight
                   /\ last' = Some([h EXCEPT !.response = Some(RouteResponse(clientId, h))])
    /\ UNCHANGED << clock, clientId, accumVars, pageVars >>

\* Mutant: the handler goes on to cache.set after an upstream 404 as well.
FulfilledOrNotFound(ans) == ans.status \in {200, 404}

\* the awaited axios.get fulfils (2xx) and the handler reaches cache.set; any
\* other outcome throws into the catch block
Fulfilled(ans) == ans.status = 200

\* The awaited call of the i-th suspended handler settles with answer ans:
\* the retry of /stations, or cache.set and the answer, or the catch block.
Settle(i, ans) ==
    /\ i \in 1..Len(inflight)
    /\ LET h == [inflight[i] EXCEPT !.answers = Append(@, ans)]
       IN  IF NeedsRetry(h)
           THEN /\ inflight' = [inflight EXCEPT
                                   ![i] = [h EXCEPT !.out = Append(@, RetryCall(h.query))]]
                /\ UNCHANGED << cache, last >>
           ELSE /\ inflight' = SubSeq(inflight, 1, i - 1)
                                   \o SubSeq(inflight, i + 1, Len(inflight))
                /\ last' = Some([h EXCEPT !.response = Some(RouteResponse(clientId, h))])
                /\ cache' = IF Fulfilled(ans)
                            THEN cacheSet(cache, Val(h.key), ans.body, TtlOf(h.query), clock)
                            ELSE cache
    /\ UNCHANGED << clock, clientId, accumVars, pageVars >>

\* time passes: by one forecast ttl, or by one ms more than that
TickSteps == {ForecastTtl * MsPerSecond, ForecastTtl * MsPerSecond + 1}
MaxClock == MaxSpans * (StationsTtl * MsPerSecond + 2)

Tick(d) ==
    /\ clock + d <= MaxClock
    /\ clock' = clock + d
    /\ UNCHANGED << cache, inflight, last, clientId, accumVars, pageVars >>

InitBackend ==
    /\ AccumIdle
    /\ BackendIdle
    /\ reqs = << >>
    /\ issued = 0
    /\ now = 0
    /\ clientId \in BOOLEAN
    /\ data = << >>
    /\ stations = << >>
    /\ selectedStation = None
    /\ loading = FALSE
    /\ error = None

NextBackend ==
    \/ \E q \in Queries : Serve(q)
    \/ \E i \in 1..MaxInflight :
          \E ans \in Upstream(IF i <= Len(inflight)
                              THEN inflight[i].out[Len(inflight[i].out)]
                              ELSE FirstCall(Query("forecast", << "60", "10" >>))) :
              Settle(i, ans)
    \/ \E d \in TickSteps : Tick(d)

SpecBackend == InitBackend /\ [][NextBackend]_vars

\* the handlers of the state: those suspended, and the one that answered last
Handlers == {inflight[i] : i \in 1..Len(inflight)} \cup {last[i] : i \in 1..Len(last)}
Answered(h) == IsDef(h.response)

----------------------------------------------------------------------------
(* C1 - C3, C7 - C10: the merged series and the state fetchData leaves *)

Done(r) == r \in 1..Len(reqs) /\ reqs[r].pc = "done"

HistoricalIn(s) == {i \in 1..Len(s) : ~s[i].isForcast}
ForecastIn(s) == {i \in 1..Len(s) : s[i].isForcast}

\* C1: the series handed to setData has no two points with the same timestamp.
C1_NoDuplicateTimestamps ==
    Done(1) =>
        \A i, j \in 1..Len(data) :
            i # j => GetTime(data[i].time) # GetTime(data[j].time)

\* C2: when a historical and a forecast point denote the same timestamp, the
\* series handed to setData has the historical point for it and no forecast
\* point.
C2_HistoricalWins ==
    Done(1) =>
        \A k \in 1..Len(reqs[1].records) :
            /\ \E i \in HistoricalIn(data) :
                  data[i].time = reqs[1].records[k].referenceTime
            /\ \A j \in ForecastIn(data) :
                  GetTime(data[j].time) # GetTime(reqs[1].records[k].referenceTime)

AllDone == \A r \in 1..Len(reqs) : reqs[r].pc = "done"

SameParameters(q1, q2) == q1.coords = q2.coords /\ q1.dateRange = q2.dateRange

\* C3: once every call has finished, the data shown is that of the call made
\* last (its parameters differing from those of the calls before it).
C3_LastRequestWins ==
    (issued >= 2 /\ AllDone
        /\ \A r \in 1..(issued - 1) : ~SameParameters(reqs[r], reqs[issued]))
        => data = reqs[issued].combinedData

IsSorted(s) ==
    \A i \in 1..(Len(s) - 1) : GetTime(s[i].time) <= GetTime(s[i + 1].time)

\* C7: the series handed to setData is sorted by timestamp, in whatever order
\* the sources returned their records.
C7_Sorted == \A r \in 1..Len(reqs) : Done(r) => IsSorted(data)

\* both sources answered out of order
C7_Witness ==
    /\ Done(1)
    /\ Len(data) = 4
    /\ ~IsSorted([i \in 1..Len(reqs[1].records) |->
                    [time |-> reqs[1].records[i].referenceTime]])
    /\ ~IsSorted(reqs[1].timeseries)

Settled(status) == status \in {"ok", "failed", "skipped"}

HasEstimate(s) == \E i \in ForecastIn(s) : IsDef(s[i].snowDepth)

\* C8: a call's series carries an estimated snowDepth only when the call has
\* run to its end, and at its end the station lookup, the historical fetch and
\* the forecast fetch have each succeeded, failed or been skipped and the
\* series is sorted.
C8_AccumulateAfterAll ==
    \A r \in 1..Len(reqs) :
        /\ HasEstimate(reqs[r].combinedData) => reqs[r].pc = "done"
        /\ reqs[r].pc = "done" =>
              /\ reqs[r].lookup \in {"ok", "failed"}
              /\ Settled(reqs[r].historical)
              /\ Settled(reqs[r].forecast)
              /\ IsSorted(reqs[r].combinedData)

C8_Witness ==
    /\ Done(1)
    /\ reqs[1].lookup = "ok" /\ reqs[1].historical = "ok" /\ reqs[1].forecast = "ok"
    /\ HasEstimate(data)

\* the forecast entries of a call's answer that fall in its window (the first
\* of those that repeat a time string), as points
WindowPoints(q) ==
    LET ts == q.timeseries
        inWindow == {k \in 1..Len(ts) : InWindow(ts[k], q.dateRange)}
        first == {k \in inWindow : \A m \in inWindow : m < k => ts[m].time # ts[k].time}
    IN  {ForecastPoint(ts[k]) : k \in first}

\* C9: after a failed station lookup or historical fetch the series has no
\* historical point, the forecast is fetched as the range demands (always when
\* start <= end) and its points in the window (one per time string) make up
\* the series; after a failed forecast fetch the series has no forecast point
\* and has the point of every historical record received.
C9_FailuresNonFatal ==
    \A r \in 1..Len(reqs) :
        LET q == reqs[r]
            s == q.combinedData
        IN  /\ (q.pc # "awaitStations" /\ q.pc # "awaitHistorical"
                    /\ (q.lookup = "failed" \/ q.historical = "failed")) =>
                  /\ HistoricalIn(s) = {}
                  /\ (q.forecast = "skipped") <=> ~ForecastWanted(q.dateRange, q.today)
                  /\ q.dateRange.start <= q.dateRange.end => q.forecast # "skipped"
                  /\ q.pc = "done" => {s[i] : i \in ForecastIn(s)} = WindowPoints(q)
            /\ (q.pc = "done" /\ q.forecast = "failed") =>
                  /\ ForecastIn(s) = {}
                  /\ Len(s) = Len(q.records)
                  /\ \A k \in 1..Len(q.records) :
                        \E i \in 1..Len(s) : s[i] = HistoricalPoint(q.records[k])

C9_Witness ==
    /\ Done(1)
    /\ reqs[1].lookup = "failed"
    /\ reqs[1].forecast = "ok"
    /\ Len(data) = 2
    /\ \A i \in 1..Len(data) : data[i].isForcast

\* C10: after the call the advisory is set exactly when the historical source
\* was skipped because the backend is not configured (the station lookup was
\* answered by the route's "not configured" branch).
C10_AdvisoryIffNotConfigured ==
    Done(1) => ((error = Some(Advisory)) <=> reqs[1].notConfigured)

----------------------------------------------------------------------------
(* C4 - C6: what the pass leaves in the series *)

\* an observed snow depth at some position before i of the input
BaselineBefore(i) ==
    \E j \in 1..(i - 1) : ~input[j].isForcast /\ IsDef(input[j].snowDepth)

NoNegativeObservation ==
    \A j \in 1..Len(input) :
        (~input[j].isForcast /\ IsDef(input[j].snowDepth))
            => Val(input[j].snowDepth) >= 0

NoNegativeDepth ==
    \A i \in 1..Len(series) :
        IsDef(series[i].snowDepth) => Val(series[i].snowDepth) >= 0

\* C4 (as stated): after the accumulation pass no point of the series has a
\* negative snowDepth, whatever the sources report.
C4_NeverNegative == PassDone => NoNegativeDepth

\* C4 (amended): after the accumulation pass no point of the series has a
\* negative snowDepth, provided no historical point carries a negative
\* observed snow depth (precipitation and temperature are arbitrary).
C4_NeverNegativeFromNonNegative ==
    (PassDone /\ NoNegativeObservation) => NoNegativeDepth

\* the melt term larger than the depth: 0.3 cm at 5 degrees ends at 0
C4_Witness ==
    /\ PassDone
    /\ NoNegativeObservation
    /\ \E i \in 2..Len(series) :
          /\ ~series[i - 1].isForcast
          /\ series[i - 1].snowDepth = Some(30)
          /\ series[i].isForcast
          /\ series[i].temperature = Some(50)
          /\ series[i].snowDepth = Some(0)

\* C5: after the pass every forecast point that comes before the first
\* historical point with an observed snow depth has snowDepth undefined; in a
\* series without historical points every snowDepth is undefined.
C5_LeadingForecastUndefined ==
    PassDone =>
        /\ \A i \in 1..Len(series) :
              (series[i].isForcast /\ ~BaselineBefore(i))
                  => ~IsDef(series[i].snowDepth)
        /\ (\A i \in 1..Len(series) : series[i].isForcast)
              => \A i \in 1..Len(series) : ~IsDef(series[i].snowDepth)

\* a leading forecast point with precipitation, then a baseline, then an
\* estimated forecast point
C5_Witness ==
    /\ PassDone
    /\ Len(series) = 3
    /\ series[1].isForcast /\ series[1].precipitation > 0
    /\ ~IsDef(series[1].snowDepth)
    /\ ~series[2].isForcast /\ IsDef(series[2].snowDepth)
    /\ series[3].isForcast /\ IsDef(series[3].snowDepth)

\* C6: after the pass every forecast point that comes after a historical
\* point with an observed snow depth has a defined numeric snowDepth, also
\* when its temperature is missing.
C6_ForecastAfterBaselineDefined ==
    PassDone =>
        \A i \in 1..Len(series) :
            (series[i].isForcast /\ BaselineBefore(i))
                => IsDef(series[i].snowDepth)

\* a forecast point without temperature, estimated from the baseline 10 cm
\* plus 3 mm of precipitation
C6_Witness ==
    /\ PassDone
    /\ \E i \in 2..Len(series) :
          /\ BaselineBefore(i)
          /\ series[i].isForcast
          /\ ~IsDef(series[i].temperature)
          /\ series[i].snowDepth = Some(1300)

----------------------------------------------------------------------------
(* C11 - C16: the backend routes and the response cache (SpecBackend) *)

EmptyList == Response(200, [data |-> Some(<< >>), error |-> None])
LastAnswer(h) == h.answers[Len(h.answers)]

\* C11: a /stations handler whose filtered nearest-station call is answered
\* 404 calls the upstream exactly once more, with the same geometry and no
\* element filter (and never calls twice otherwise); when the retry is
\* answered 404 as well the handler answers 200 with {data: []}.
C11_RetryOnceThenEmpty ==
    \A h \in Handlers :
        h.query.route = "stations" =>
            /\ Len(h.out) <= 2
            /\ Len(h.answers) = 2 => Answered(h)
            /\ (h.answers # << >> /\ h.answers[1].status = 404) => Len(h.out) = 2
            /\ Len(h.out) = 2 =>
                  /\ h.answers[1].status = 404
                  /\ h.out[1].elements = ElementsFilter
                  /\ h.out[2].service = h.out[1].service
                  /\ h.out[2].geometry = h.out[1].geometry
                  /\ h.out[2].elements = ""
            /\ (Len(h.answers) = 2 /\ h.answers[2].status = 404)
                  => h.response = Some(EmptyList)

\* both calls answered 404, and the route answered the empty list
C11_Witness ==
    \E h \in Handlers :
        /\ h.query.route = "stations"
        /\ Len(h.answers) = 2
        /\ h.answers[1].status = 404 /\ h.answers[2].status = 404
        /\ h.response = Some(EmptyList)

\* C12: without FROST_CLIENT_ID every /stations and /observations request is
\* answered 503 with the "not configured" payload and makes no outbound call,
\* whatever its parameters and whatever the cache holds; a /forecast request
\* is served as it is with the identifier: from the cache on a hit, else by
\* one outbound call whose outcome it forwards.
C12_NotConfigured ==
    \A h \in Handlers :
        IF IsFrost(h.query)
        THEN ~clientId =>
                /\ h.response = Some(Response(503, ErrorBody(NotConfiguredText)))
                /\ h.out = << >>
        ELSE /\ h.out = IF IsDef(h.seen) THEN << >> ELSE << FirstCall(h.query) >>
             /\ Answered(h) =>
                   IF IsDef(h.seen) THEN h.response = Some(Response(200, Val(h.seen)))
                   ELSE /\ h.answers # << >>
                        /\ Val(h.response).status =
                              (IF h.answers[1].status = 0 THEN 500 ELSE h.answers[1].status)
                        /\ h.answers[1].status = 200
                              => Val(h.response).body = h.answers[1].body

\* no identifier: a forecast was fetched and cached, and a well-formed
\* /observations request was refused after that
C12_Witness ==
    /\ ~clientId
    /\ DOMAIN cache # {}
    /\ \E h \in Handlers :
          /\ h.query.route = "observations"
          /\ RequiredPresent(h.query)
          /\ Val(h.response).status = 503

\* C13: a /stations or /observations handler that called the upstream answers
\* by the outcome of its last call: 2xx gives 200 with the upstream body, 404
\* gives 200 with {data: []}, 401 gives 401, any other status gives that
\* status with the upstream body in details; a call without a response gives
\* 500, and no handler is left without an answer once its call has settled.
C13_UpstreamOutcome ==
    \A h \in Handlers :
        IsFrost(h.query) =>
            /\ Len(h.answers) = Len(h.out) => Answered(h)
            /\ (Answered(h) /\ h.answers # << >>) =>
                  LET up == LastAnswer(h)
                      r == Val(h.response)
                  IN  IF up.status = 200 THEN r = Response(200, up.body)
                      ELSE IF up.status = 404 THEN r = EmptyList
                      ELSE IF up.status = 401 THEN r.status = 401
                      ELSE IF up.status = 0 THEN r.status = 500
                      ELSE r.status = up.status /\ r.body.details = Some(up.body)

\* /observations: the upstream answered 404, the route answered the empty list
C13_Witness ==
    \E h \in Handlers :
        /\ h.query.route = "observations"
        /\ h.answers # << >>
        /\ LastAnswer(h).status = 404
        /\ h.response = Some(EmptyList)

\* the handler that a step has just suspended, if any
Suspended(q) ==
    /\ Len(inflight') = Len(inflight) + 1
    /\ inflight'[Len(inflight')] =
          [query |-> q, key |-> Some(KeyOf(q)), seen |-> None, hit |-> None,
           out |-> << FirstCall(q) >>, answers |-> << >>, response |-> None]

\* C14: a lookup of a key whose entry is older than its ttl goes on as the
\* lookup of a key that was never set does (the handler gets null and calls
\* the upstream) and the entry is gone after the read; no step removes or
\* changes an entry except such a read, an overwrite by set, or clear: the
\* passing of time alone removes nothing.
C14_LazyEviction ==
    [][/\ \A q \in Queries :
             (/\ Serve(q)
              /\ Accepted(clientId, q)
              /\ KeyOf(q) \in DOMAIN cache
              /\ clock - cache[KeyOf(q)].timestamp > cache[KeyOf(q)].ttl)
                 => /\ KeyOf(q) \notin DOMAIN cache'
                    /\ Suspended(q)
       /\ \A k \in DOMAIN cache :
             (k \notin DOMAIN cache' \/ cache'[k] # cache[k])
                 => \/ /\ clock - cache[k].timestamp > cache[k].ttl
                       /\ clock' = clock
                       /\ \E q \in Queries : KeyOf(q) = k /\ Suspended(q)
                    \/ k \in DOMAIN cache' /\ cache'[k].timestamp = clock
                    \/ DOMAIN cache' = {}
      ]_vars

\* a key that was written by a handler's successful call is gone again, and
\* the handler that found it stale is waiting for the upstream
C14_Witness ==
    \E h \in Handlers :
        /\ Answered(h)
        /\ h.answers # << >>
        /\ LastAnswer(h).status = 200
        /\ Val(h.key) \notin DOMAIN cache
        /\ \E g \in Handlers : ~Answered(g) /\ g.key = h.key

\* C15: a request whose key was cached by a successful upstream response is
\* answered from the cache, without an outbound call, as long as the entry's
\* age is at most its ttl (1800 s for /forecast, 3600 s for /stations and
\* /observations); the first such request after that makes a new outbound
\* call.
C15_CachedWithinTtl ==
    [][\A q \in Queries :
          (Serve(q) /\ Accepted(clientId, q) /\ KeyOf(q) \in DOMAIN cache)
              => LET entry == cache[KeyOf(q)]
                     age == clock - entry.timestamp
                     ttl == (IF q.route = "forecast" THEN 1800 ELSE 3600) * 1000
                 IN  IF age <= ttl
                     THEN /\ inflight' = inflight
                          /\ Val(last').query = q
                          /\ Val(last').out = << >>
                          /\ Val(last').response = Some(Response(200, entry.data))
                     ELSE Suspended(q)
      ]_vars

\* a /forecast request answered from the cache at the very end of the ttl
C15_Witness ==
    \E h \in Handlers :
        /\ h.query.route = "forecast"
        /\ IsDef(h.hit)
        /\ Val(h.hit).at - Val(h.hit).entry.timestamp = 1800 * 1000
        /\ h.out = << >>
        /\ Val(h.response).status = 200

\* C16: two accepted requests that differ never share a cache key, so a
\* handler answered from the cache gets a body the upstream gave for a call of
\* this same request.
C16_KeyPerRequest ==
    \A h \in Handlers :
        (IsDef(h.seen) /\ IsDef(Val(h.seen).data))
            => Val(Val(h.seen).data)[1] \in {FirstCall(h.query), RetryCall(h.query)}

----------------------------------------------------------------------------
(* C18 - C20: the running value of the accumulation pass (SpecAccum) *)

\* the largest element of a non-empty set of numbers
Largest(S) == CHOOSE m \in S : \A n \in S : n <= m

\* the observed snow depth of the last historical point before i that has one
LastObservedBefore(i) ==
    LET K == {k \in 1..(i - 1) : ~input[k].isForcast /\ IsDef(input[k].snowDepth)}
    IN  IF K = {} THEN None ELSE input[Largest(K)].snowDepth

\* the snow depth of the last point before i that has one once the loop has
\* handled it: an observed value or an estimate
RunningBefore(i) ==
    LET K == {k \in 1..(i - 1) : IsDef(series[k].snowDepth)}
    IN  IF K = {} THEN None ELSE series[Largest(K)].snowDepth

\* C18 (as stated): throughout the pass the value carried from point to point
\* is the snow depth of the most recent historical point with an observed
\* value; handling a forecast point never changes it.
C18_BaselineIsLastObservation == accumulated = LastObservedBefore(idx)

\* C18 (amended): throughout the pass the value carried from point to point is
\* the snow depth of the most recent point handled so far that has one, an
\* observed historical value or a forecast estimate: a historical point with
\* an observed value resets it to that value, a historical point without one
\* leaves it, and a forecast point handled with a running value replaces it by
\* its own estimate.
C18_RunningIsLastDepth ==
    /\ accumulated = RunningBefore(idx)
    /\ (\A k \in 1..(idx - 1) : ~series[k].isForcast)
          => accumulated = LastObservedBefore(idx)
    /\ \A i \in 1..(idx - 1) :
          (~series[i].isForcast /\ IsDef(input[i].snowDepth))
              => series[i].snowDepth = input[i].snowDepth

\* observed 10 cm, then a forecast point with 3 mm at -2 degrees: the loop
\* carries 13 cm on
C18_Witness ==
    /\ idx > 2
    /\ ~series[idx - 2].isForcast
    /\ series[idx - 2].snowDepth = Some(1000)
    /\ series[idx - 1].isForcast
    /\ LastObservedBefore(idx) = Some(1000)
    /\ accumulated = Some(1300)

\* the estimate of C19 from running value r, precipitation p and temperature
\* t (in tenths of a degree)
C19_Expected(r, p, t) ==
    LET value == IF t <= 20 /\ p > 0 THEN r + p ELSE r
    IN  IF t > 0 /\ value > 0 THEN value - Min(value, t) ELSE value

\* C19: a forecast point handled when a running value r exists, with
\* precipitation p and temperature t (0 when missing), gets r, plus p if
\* t <= 2 and p > 0, then minus min(value, t * 0.1) if t > 0 and the value is
\* > 0; that result is the point's snowDepth and the running value for the
\* next point.
C19_ForecastStep ==
    \A i \in 1..(idx - 1) :
        (series[i].isForcast /\ IsDef(RunningBefore(i))) =>
            LET t == IF IsDef(series[i].temperature) THEN Val(series[i].temperature)
                     ELSE 0
                new == C19_Expected(Val(RunningBefore(i)), series[i].precipitation, t)
            IN  /\ series[i].snowDepth = Some(new)
                /\ i = idx - 1 => accumulated = Some(new)

\* observed 10 cm, then forecasts (3 mm, -2 degrees) and (0 mm, 5 degrees):
\* 13 cm and then 12.5 cm
C19_Witness ==
    /\ PassDone
    /\ Len(series) = 3
    /\ ~series[1].isForcast /\ series[1].snowDepth = Some(1000)
    /\ series[2].isForcast /\ series[2].precipitation = 300
    /\ series[2].temperature = Some(-20) /\ series[2].snowDepth = Some(1300)
    /\ series[3].isForcast /\ series[3].precipitation = 0
    /\ series[3].temperature = Some(50) /\ series[3].snowDepth = Some(1250)
    /\ accumulated = Some(1250)

\* the depth of forecast point i when its melt term is taken, and what the
\* melt term removes from it (both in hundredths of a cm)
DepthBeforeMelt(i) ==
    LET t == IF IsDef(series[i].temperature) THEN Val(series[i].temperature) ELSE 0
        r == Val(RunningBefore(i))
    IN  IF t <= 20 /\ series[i].precipitation > 0 THEN r + series[i].precipitation
        ELSE r
Removed(i) == DepthBeforeMelt(i) - Val(series[i].snowDepth)

\* the forecast points the melt term applies to
Melting(i) ==
    /\ series[i].isForcast
    /\ IsDef(RunningBefore(i))
    /\ IsDef(series[i].temperature)
    /\ Val(series[i].temperature) > 0
    /\ DepthBeforeMelt(i) > 0

----------------------------------------------------------------------------
(* C21, C29, C30: what the accumulation pass leaves alone (SpecAccum) *)

\* C21: a historical point without an observed snow depth leaves the carried
\* value and its own (undefined) snowDepth as they are, also when a baseline
\* from an earlier observation exists; a step gives a point a new snowDepth
\* only if the point is a forecast point.
C21_HistoricalGapStays ==
    [][idx <= Len(series) =>
          /\ (~series[idx].isForcast /\ ~IsDef(series[idx].snowDepth))
                => /\ accumulated' = accumulated
                   /\ series' = series
          /\ series'[idx].snowDepth # series[idx].snowDepth => series[idx].isForcast
      ]_vars

\* observed 10 cm, then a historical point without snow depth, then a forecast
\* point estimated from the 10 cm
C21_Witness ==
    /\ PassDone
    /\ Len(series) = 3
    /\ ~series[1].isForcast /\ series[1].snowDepth = Some(1000)
    /\ ~series[2].isForcast /\ ~IsDef(series[2].snowDepth)
    /\ series[3].isForcast /\ series[3].precipitation = 300
    /\ series[3].temperature = Some(-20)
    /\ series[3].snowDepth = Some(1300)

\* C29: the pass applied to its own output (same tags, forecast points now
\* carrying their estimates) gives that output back: no point's snowDepth
\* changes the second time.
C29_Idempotent ==
    PassDone => Accumulate(series) = series

\* two chained estimates (13 cm, then 12.5 cm) that the second pass reproduces
C29_Witness ==
    /\ PassDone
    /\ Len(series) = 3
    /\ ~series[1].isForcast /\ series[1].snowDepth = Some(1000)
    /\ series[2].isForcast /\ series[2].snowDepth = Some(1300)
    /\ series[3].isForcast /\ series[3].snowDepth = Some(1250)
    /\ Accumulate(series)[3].snowDepth = Some(1250)

\* C30: at every moment of the pass the series has the points of the input in
\* the input's order, each with its timestamp, precipitation, temperature,
\* wind fields and tag, and every historical point with its snowDepth
\* (observed or missing); only the snowDepth of forecast points may differ.
C30_OnlyForecastDepth ==
    /\ Len(series) = Len(input)
    /\ \A i \in 1..Len(series) :
          /\ [series[i] EXCEPT !.snowDepth = input[i].snowDepth] = input[i]
          /\ ~input[i].isForcast => series[i] = input[i]

\* a negative observation and a gap kept as they were, a forecast point changed
C30_Witness ==
    /\ PassDone
    /\ Len(series) = 3
    /\ ~series[1].isForcast /\ series[1].snowDepth = Some(-100)
    /\ ~series[2].isForcast /\ ~IsDef(series[2].snowDepth)
    /\ series[3].isForcast /\ series[3].snowDepth # input[3].snowDepth

----------------------------------------------------------------------------
(* C22: which forecast entries reach the merged series (SpecPipe) *)

\* the series holds entry ts as a forecast point (the pass may have given it
\* an estimate)
IncludedAs(s, ts) ==
    \E i \in ForecastIn(s) : [s[i] EXCEPT !.snowDepth = None] = ForecastPoint(ts)

\* entry k of the call's forecast answer lies in [start-of-day(range.start),
\* end-of-day(range.end)]
WithinRange(q, k) ==
    /\ StartOfDay(q.dateRange.start) <= GetTime(q.timeseries[k].time)
    /\ GetTime(q.timeseries[k].time) <= EndOfDay(q.dateRange.end)

\* a historical record received by the call is at the instant of entry k
AtHistoricalInstant(q, k) ==
    \E h \in 1..Len(q.records) :
        GetTime(q.records[h].referenceTime) = GetTime(q.timeseries[k].time)

\* a point pushed before entry k is examined has entry k's timestamp string:
\* a historical one, or an earlier entry of the window
AlreadyPushed(q, k) ==
    \/ \E h \in 1..Len(q.records) : q.records[h].referenceTime = q.timeseries[k].time
    \/ \E m \in 1..(k - 1) : WithinRange(q, m) /\ q.timeseries[m].time = q.timeseries[k].time

\* C22 as stated: every forecast point of the series lies in the window, and
\* every received entry in the window that is at no historical point's instant
\* is in the series.
C22_AllInWindowIncluded ==
    (Done(1) /\ reqs[1].forecast = "ok") =>
        /\ \A i \in ForecastIn(data) :
              /\ StartOfDay(reqs[1].dateRange.start) <= GetTime(data[i].time)
              /\ GetTime(data[i].time) <= EndOfDay(reqs[1].dateRange.end)
        /\ \A k \in 1..Len(reqs[1].timeseries) :
              (WithinRange(reqs[1], k) /\ ~AtHistoricalInstant(reqs[1], k))
                  => IncludedAs(data, reqs[1].timeseries[k])

\* C22: every forecast point of the series lies in the window (bounds
\* inclusive) and is a received entry; a received entry in the window is in
\* the series exactly when no point pushed before it, historical or forecast,
\* has its timestamp string.
C22_WindowFirstPerTimestamp ==
    (Done(1) /\ reqs[1].forecast = "ok") =>
        /\ \A i \in ForecastIn(data) :
              /\ StartOfDay(reqs[1].dateRange.start) <= GetTime(data[i].time)
              /\ GetTime(data[i].time) <= EndOfDay(reqs[1].dateRange.end)
              /\ \E k \in 1..Len(reqs[1].timeseries) :
                    /\ ~AlreadyPushed(reqs[1], k)
                    /\ [data[i] EXCEPT !.snowDepth = None]
                          = ForecastPoint(reqs[1].timeseries[k])
        /\ \A k \in 1..Len(reqs[1].timeseries) :
              (WithinRange(reqs[1], k) /\ ~AlreadyPushed(reqs[1], k))
                  => IncludedAs(data, reqs[1].timeseries[k])
        /\ \A k \in 1..Len(reqs[1].timeseries) :
              (\E h \in 1..Len(reqs[1].records) :
                    reqs[1].records[h].referenceTime = reqs[1].timeseries[k].time)
                  => \A i \in ForecastIn(data) : data[i].time # reqs[1].timeseries[k].time

\* a one-day range that starts and ends inside the day: the entries at the
\* first and at the last instant of the day are both in the series
C22_Witness ==
    /\ Done(1) /\ reqs[1].forecast = "ok"
    /\ reqs[1].dateRange = [start |-> 1, end |-> 1]
    /\ Len(reqs[1].timeseries) = 2
    /\ GetTime(reqs[1].timeseries[1].time) = EndOfDay(1)
    /\ GetTime(reqs[1].timeseries[2].time) = StartOfDay(1)
    /\ StartOfDay(1) < 1
    /\ ForecastIn(data) = {1, 2}

----------------------------------------------------------------------------
(* C26: when the forecast source is asked (SpecPipe) *)

\* the call has sent the forecast request
ForecastRequested(q) == q.pc = "awaitForecast" \/ q.forecast \in {"ok", "failed"}

\* C26 as stated: a call whose range ends before the start of today never
\* sends the forecast request.
C26_PastRangeNoForecast ==
    \A r \in 1..Len(reqs) :
        (reqs[r].dateRange.start <= reqs[r].dateRange.end
            /\ IsBefore(reqs[r].dateRange.end, reqs[r].today))
            => ~ForecastRequested(reqs[r])

----------------------------------------------------------------------------
(* SpecEmit: the point built from one forecast entry, for every shape of its
   two prediction blocks (C23) *)

\* a prediction block may be absent, present without an amount, or present
\* with an amount (0 mm, 2 mm or 3 mm)
EmitBlocks(amounts) == {None, Block(None)} \cup {Block(Some(a)) : a \in amounts}

EmitEntries ==
    {[time |-> PlainTime(i), next_1_hours |-> b1, next_6_hours |-> b6,
      instant |-> Details(t, Some(3), None)] :
        i \in Instants, b1 \in EmitBlocks({0, 300}), b6 \in EmitBlocks({0, 200}),
        t \in {None, Some(-20)}}

InitEmit ==
    /\ input \in {<< e >> : e \in EmitEntries}
    /\ series = << >>
    /\ idx = 1
    /\ accumulated = None
    /\ HookIdle
    /\ BackendIdle

\* lines 371-387 for the entry
EmitNext ==
    /\ idx <= Len(input)
    /\ series' = Append(series, ForecastPoint(input[idx]))
    /\ idx' = idx + 1
    /\ UNCHANGED << input, accumulated, hookVars, backendVars >>

NextEmit == EmitNext

SpecEmit == InitEmit /\ [][NextEmit]_vars

HasAmount(block) == IsDef(block) /\ IsDef(Val(block).precipitation_amount)

\* C23 as stated: the emitted precipitation is the next-1-hour block's amount
\* whenever that block is present, the next-6-hour block's amount when only
\* that block is present, and 0 when neither block is present.
C23_BlockPresenceDecides ==
    \A k \in 1..Len(series) :
        Some(series[k].precipitation) =
            IF IsDef(input[k].next_1_hours)
            THEN Val(input[k].next_1_hours).precipitation_amount
            ELSE IF IsDef(input[k].next_6_hours)
            THEN Val(input[k].next_6_hours).precipitation_amount
            ELSE Some(0)

\* C23: the emitted precipitation is the next-1-hour amount whenever that
\* block carries an amount (0 included); otherwise the next-6-hour amount when
\* that block carries one; otherwise 0.
C23_FirstAmountDecides ==
    \A k \in 1..Len(series) :
        series[k].precipitation =
            IF HasAmount(input[k].next_1_hours)
            THEN Val(Val(input[k].next_1_hours).precipitation_amount)
            ELSE IF HasAmount(input[k].next_6_hours)
            THEN Val(Val(input[k].next_6_hours).precipitation_amount)
            ELSE 0

\* a next-1-hour block without an amount beside a next-6-hour block with 2 mm
C23_Witness ==
    /\ Len(series) = 1
    /\ IsDef(input[1].next_1_hours) /\ ~HasAmount(input[1].next_1_hours)
    /\ input[1].next_6_hours = Block(Some(200))
    /\ series[1].precipitation = 200

----------------------------------------------------------------------------
(* C24, C25: overlapping and successive calls (SpecHook) *)

InFlight(r) == r \in 1..Len(reqs) /\ reqs[r].pc # "done"

\* C24 as stated: the loading flag is true at every moment at which a call is
\* still in flight.
C24_LoadingWhileInFlight ==
    (\E r \in 1..MaxRequests : InFlight(r)) => loading

\* C25 as stated: when the latest call, made after every earlier call has
\* finished, gets the answer of its station lookup, the selected station
\* becomes the first entry of the stations list that answer sets, and null
\* when that list is empty.
C25_SelectedIsFirstStation ==
    [][(/\ issued >= 1
        /\ \A r \in 1..(issued - 1) : reqs[r].pc = "done"
        /\ reqs[issued].pc = "awaitStations"
        /\ issued' = issued
        /\ reqs'[issued].pc # "awaitStations")
          => selectedStation' = IF stations' = << >> THEN None
                                ELSE Some(stations'[1])
      ]_vars

----------------------------------------------------------------------------
(* C27: what is written to the cache (SpecBackend) *)

\* a handler gets its last answer and responds in this step
Finishes == Len(inflight') < Len(inflight)

\* C27: a step puts an entry into the cache (new or replaced) only when a
\* handler finishes whose last upstream answer is a 200, the entry holding
\* that answer's body under the handler's key; a handler that finishes in any
\* other way (401, absorbed 404, other error status, no response) and a
\* request answered at once (503, 400, cache hit) leave every entry as it
\* was; so what a request is served from the cache is never an error body nor
\* the empty list of an absorbed 404.
C27_CacheOnlyUpstreamBody ==
    [][/\ \A k \in DOMAIN cache' :
             (k \notin DOMAIN cache \/ cache'[k] # cache[k])
                => /\ Finishes
                   /\ Val(last').key = Some(k)
                   /\ LastAnswer(Val(last')).status = 200
                   /\ cache'[k].data = LastAnswer(Val(last')).body
       /\ (Finishes /\ LastAnswer(Val(last')).status # 200) => cache' = cache
       /\ (IsDef(last') /\ IsDef(Val(last').seen)) =>
             /\ IsDef(Val(Val(last').seen).data)
             /\ Val(Val(Val(last').seen).data) # << >>
             /\ ~IsDef(Val(Val(last').seen).error)
      ]_vars

\* a /stations request whose two calls were answered 404, answered with the
\* empty list, its key not in the cache while another request's body is
C27_Witness ==
    /\ IsDef(last)
    /\ Val(last).query.route = "stations"
    /\ Len(Val(last).answers) = 2
    /\ LastAnswer(Val(last)).status = 404
    /\ Val(last).response = Some(EmptyList)
    /\ Val(Val(last).key) \notin DOMAIN cache
    /\ cache # EmptyCache

----------------------------------------------------------------------------
(* SpecHookLive: the calls of SpecHook when every awaited request settles
   (C28) *)

\* the awaited promise of some call in flight settles, fulfilled or rejected
HookArrive ==
    \/ \E r \in 1..MaxRequests :
          \E resp \in StationsAnswers(clientId,
                        {<< StationAt(IF r <= Len(reqs) THEN reqs[r].coords ELSE 1) >>}) :
              StationsArrive(r, resp)
    \/ \E r \in 1..MaxRequests :
          \E resp \in HookHistoricalAnswers(IF r <= Len(reqs) THEN reqs[r].coords ELSE 1) :
              HistoricalArrive(r, resp)
    \/ \E r \in 1..MaxRequests :
          \E resp \in HookForecastAnswers(IF r <= Len(reqs) THEN reqs[r].coords ELSE 1) :
              ForecastArrive(r, resp)

SpecHookLive == InitHook /\ [][NextHook]_vars /\ WF_vars(HookArrive)

====
